---- MODULE Spec2Model ----
(***************************************************************************)
(* A model of maloja: the address allocation done when a NebulaNetwork is  *)
(* constructed (entities.py, model_post_init) and the certificate          *)
(* issuance of io.py (network_cert, sign_node) as driven by                *)
(* NebulaNetwork.create_network_cert / create_node_cert.                   *)
(*                                                                         *)
(* The specifications of the module share one list of variables; each      *)
(* pins the variables of the others to their idle values:                  *)
(*   SpecAlloc     the allocator: Init draws a network (base address,      *)
(*                 prefix length, node list) and the actions construct it; *)
(*   Spec          the certificate manager: one sequential caller issuing  *)
(*                 network_cert / sign_node / create_node_cert calls       *)
(*                 against the filesystem and the signing process;         *)
(*   SpecPar       sign_node calls for different nodes run in parallel;    *)
(*   SpecFirewall  get_firewall_items_from_groups on a node;               *)
(*   SpecConf      create_node_cert composing the nodes' configurations;   *)
(*   SpecLh        the lighthouses property of a network;                  *)
(*   SpecSer       construction and model_dump of the configuration        *)
(*                 classes (do_skip_none);                                 *)
(*   SpecShare     one node object given to two networks;                  *)
(*   SpecSave      get_nodes, dump_config and save_node_configs;           *)
(*   SpecPaths     sign_node calls on the artifact files by their paths.   *)
(***************************************************************************)
EXTENDS Integers, Sequences, FiniteSets, TLC

(***************************************************************************)
(* Bounds of the model.                                                    *)
(***************************************************************************)
\* Largest number of host bits of a modelled address block (block of 2^k).
MaxHostBits == 2
\* Largest number of nodes in a network's node list (allocator).
MaxNodes == 3
\* Number of nodes of the network whose certificates are issued.
NumCertNodes == 2
\* Largest number of elements of a node's groups list.
MaxGroups == 3
\* Number of get_firewall_items_from_groups calls made on one node.
MaxFirewallCalls == 2
\* Number of nodes of the network whose configurations are composed.
NumConfNodes == 3
\* Number of sign_node calls made on the files modelled by path.
MaxPathCalls == 2

(***************************************************************************)
(* Program constants.                                                      *)
(***************************************************************************)
\* The widest prefix length CIDRLiteral admits: the IPv4 address width.
MaxCidr == 32
\* 10.100.100.0 as an integer: the base address the tests construct with.
NetBase == 174351360
\* A node's ip field when it holds None (0.0.0.0 is never drawn as an address).
NoIp == 0

VARIABLES
    \* ---- allocator (entities.py) ----
    net,        \* [ip, cidr]: the NebulaNetwork's ip and cidr fields
    inNodes,    \* the node list as the caller passed it (ip or NoIp each)
    nodes,      \* the network's node objects (model_post_init mutates them)
    built,      \* "new" | "ok" | "IndexError" | "ValidationError"
    scrambled,  \* list(h) enumerated the set h out of ascending order
    nodes2,     \* a second construction from the same input: its nodes
    built2,     \* ... and its outcome
    scrambled2, \* ... and whether list(h) was out of order for it
    \* ---- certificate manager (io.py) ----
    files,      \* files[s][e]: NoFile, OldFile or NewFile
    invoked,    \* invoked[s]: runs of s's signing process in the current call
    dirExists,  \* the network's output directory exists
    pc,         \* the caller's position
    call,       \* the call in progress (or the last one): [op, node, ow]
    pre,        \* the files as they were when the call started
    result,     \* "none" | "running" | "ok" | "ValueError" | "ProcessError"
    errorSet,   \* the artifact set whose check or signing process raised
    prevDone,   \* the set the previous call completed from Absent, if any
    clean,      \* so far every process run wrote all three files and
                \* returned, or wrote nothing and raised
    \* ---- concurrent callers of io.py ----
    ppc,        \* ppc[p]: caller p's position
    pow,        \* pow[n]: the overwrite argument of the sign_node call for n
    pres,       \* pres[p]: "none" | "ok" | "ValueError" | "ProcessError"
    \* ---- a node's firewall groups (entities.py) ----
    fwDeclared, \* the groups the node was declared with
    fwGroups,   \* node.groups
    fwOut,      \* the sections get_firewall_items_from_groups returned
    \* ---- lighthouses and create_node_cert's configurations ----
    cnodes,     \* the network's nodes: ip, am_lighthouse, public, groups, config
    ci,         \* the nodes create_node_cert's loop has finished
    cres,       \* "none" | "ok" | "SigningError" | "ValidationError"
    \* ---- the lighthouses accessor (entities.py) ----
    lnodes,     \* a network's nodes (ip and am_lighthouse of each)
    lhRead,     \* what network.lighthouses last returned (node indices)
    lhAt,       \* the nodes' am_lighthouse flags at that read
    \* ---- serialization of a configuration model (base.py) ----
    sClass,     \* the model class: "Pki" or "NebulaConfig"
    sGiven,     \* sGiven[f]: the value passed for field f, or "unset"
    sInst,      \* the model instance: its fields' values
    sOut,       \* what model_dump returned
    sStage,     \* "given" | "built" | "dumped"
    \* ---- one node list passed to two networks (entities.py) ----
    netB,       \* [ip, cidr] of the second network built from the same nodes
    builtB,     \* "new" | "ok" | "IndexError": its construction's outcome
    \* ---- get_nodes, dump_config and save_node_configs ----
    vnodes,     \* the network's nodes: name and whether config is set
    cfgFiles,   \* cfgFiles[name]: the file {dir}/{name}.yaml
    pyOptimized,\* the interpreter runs with -O (assert statements removed)
    vcall,      \* the last call: [op, kind, node, str]
    vres,       \* its outcome: "none" | "ok" | the exception raised
    vret,       \* what get_nodes returned (node indices)
    \* ---- artifact files by path (entities.py, io.py) ----
    pnames,     \* pnames[n]: the name of node n
    pfiles,     \* pfiles[base][ext]: who wrote {dir}/{base}.{ext}, or NoFile
    pcall,      \* the last sign_node call: [node, ow]
    pout,       \* its outcome: [err, ran, deleted]
    pcalls      \* the number of sign_node calls made

allocVars == <<net, inNodes, nodes, built, scrambled, nodes2, built2, scrambled2>>
certVars == <<files, invoked, dirExists, pc, call, pre, result, errorSet,
              prevDone, clean>>
parVars == <<ppc, pow, pres>>
fwVars == <<fwDeclared, fwGroups, fwOut>>
confVars == <<cnodes, ci, cres>>
lhVars == <<lnodes, lhRead, lhAt>>
serVars == <<sClass, sGiven, sInst, sOut, sStage>>
shareVars == <<netB, builtB>>
saveVars == <<vnodes, cfgFiles, pyOptimized, vcall, vres, vret>>
pathVars == <<pnames, pfiles, pcall, pout, pcalls>>
extVars == <<parVars, fwVars, confVars, lhVars, serVars, shareVars, saveVars, pathVars>>
vars == <<allocVars, certVars, extVars>>

(***************************************************************************)
(* ipaddress: blocks and host addresses.                                   *)
(***************************************************************************)
RECURSIVE Pow2(_)
Pow2(k) == IF k = 0 THEN 1 ELSE 2 * Pow2(k - 1)

\* The addresses and prefix lengths the inputs are drawn from.
IPs == NetBase .. (NetBase + Pow2(MaxHostBits) - 1)
Cidrs == (MaxCidr - MaxHostBits) .. MaxCidr

BlockSize(cidr) == Pow2(MaxCidr - cidr)

\* IPvAnyNetwork(str(ip) + "/cidr") builds a strict IPv4Network: it raises
\* when the base address has host bits set.
ValidNetwork(n) == n.ip % BlockSize(n.cidr) = 0

\* All addresses of the block ip/cidr.
BlockAddrs(n) == n.ip .. (n.ip + BlockSize(n.cidr) - 1)

\* ipaddress.ip_network(...).hosts(): the block without its network and
\* broadcast address; both addresses of a /31; the single address of a /32.
Hosts(n) ==
    IF n.cidr >= MaxCidr - 1
    THEN BlockAddrs(n)
    ELSE BlockAddrs(n) \ {n.ip, n.ip + BlockSize(n.cidr) - 1}

(***************************************************************************)
(* NebulaNetwork.model_post_init: the address allocation.                  *)
(***************************************************************************)
\* The node lists a caller may pass: each node's ip is an address or None.
RECURSIVE SeqsUpTo(_, _)
SeqsUpTo(S, k) ==
    IF k = 0 THEN {<<>>}
    ELSE LET shorter == SeqsUpTo(S, k - 1)
         IN  shorter \cup {Append(s, x) : s \in {t \in shorter : Len(t) = k - 1}, x \in S}

NodeLists == SeqsUpTo([ip : IPs \cup {NoIp}], MaxNodes)

\* The addresses some node of the list carries explicitly.
ExplicitIps(ns) == {ns[j].ip : j \in {k \in 1..Len(ns) : ns[k].ip # NoIp}}

\* The indices of the nodes lacking an address, and how many there are.
UnsetIdx(ns) == {k \in 1..Len(ns) : ns[k].ip = NoIp}

\* lines 190-194: h = set(hosts) minus every explicitly assigned address.
\* (KeepExplicit: the faulty variant that leaves the explicit ones in.)
KeepExplicit(h, ns) == h
RemoveExplicit(h, ns) == h \ ExplicitIps(ns)

\* list(h): a Python set is enumerated in hash-table order, and the hash of
\* an address is a seeded string hash, so every order can occur.
RECURSIVE Perms(_)
Perms(S) ==
    IF S = {} THEN {<<>>}
    ELSE UNION {{<<x>> \o p : p \in Perms(S \ {x})} : x \in S}

\* sorted(...): ascending order (an insertion sort).
RECURSIVE Insert(_, _)
Insert(x, s) ==
    IF s = <<>> THEN <<x>>
    ELSE IF x <= Head(s) THEN <<x>> \o s
    ELSE <<Head(s)>> \o Insert(x, Tail(s))

RECURSIVE InsertionSort(_)
InsertionSort(s) == IF s = <<>> THEN <<>> ELSE Insert(Head(s), InsertionSort(Tail(s)))

\* Faulty variants: no sort at all, and a descending sort.
Unsorted(s) == s
Reversed(s) == [k \in 1..Len(s) |-> InsertionSort(s)[Len(s) + 1 - k]]
Sorted(s) == InsertionSort(s)

\* lines 196-197: for i, node in enumerate(unset nodes): node.ip = hosts[i].
\* hosts[i] raises IndexError once i reaches len(hosts); the nodes assigned
\* before that keep their new address.  j walks the node list, i counts the
\* nodes assigned so far.
RECURSIVE AssignFrom(_, _, _, _)
AssignFrom(ns, hosts, j, i) ==
    IF j > Len(ns) THEN [nodes |-> ns, err |-> "ok"]
    ELSE IF ns[j].ip # NoIp THEN AssignFrom(ns, hosts, j + 1, i)
    ELSE IF i + 1 > Len(hosts) THEN [nodes |-> ns, err |-> "IndexError"]
    ELSE AssignFrom([ns EXCEPT ![j].ip = hosts[i + 1]], hosts, j + 1, i + 1)

\* A faulty loop that wraps around instead of failing when hosts run out.
RECURSIVE AssignWrapFrom(_, _, _, _)
AssignWrapFrom(ns, hosts, j, i) ==
    IF j > Len(ns) \/ hosts = <<>> THEN [nodes |-> ns, err |-> "ok"]
    ELSE IF ns[j].ip # NoIp THEN AssignWrapFrom(ns, hosts, j + 1, i)
    ELSE AssignWrapFrom([ns EXCEPT ![j].ip = hosts[(i % Len(hosts)) + 1]],
                        hosts, j + 1, i + 1)

AssignWrap(ns, hosts) == AssignWrapFrom(ns, hosts, 1, 0)
Assign(ns, hosts) == AssignFrom(ns, hosts, 1, 0)

\* model_post_init for network n over node objects ns, when list(h)
\* enumerates h in the order `order`.
PostInit(n, ns, order) == Assign(ns, Sorted(order))

InitAlloc ==
    /\ net \in [ip : IPs, cidr : Cidrs]
    /\ inNodes \in NodeLists
    /\ nodes = inNodes
    /\ built = "new"
    /\ scrambled = FALSE
    /\ nodes2 = <<>>
    /\ built2 = "new"
    /\ scrambled2 = FALSE

\* NebulaNetwork(cert_authority=..., ip=..., cidr=..., nodes=...) on a
\* network whose base address has host bits set: self.network raises.
ConstructInvalid ==
    /\ built = "new"
    /\ ~ValidNetwork(net)
    /\ built' = "ValidationError"
    /\ UNCHANGED <<net, inNodes, nodes, scrambled, nodes2, built2, scrambled2>>
    /\ UNCHANGED <<certVars, extVars>>

\* NebulaNetwork(...) on a valid network: model_post_init allocates.
Construct ==
    /\ built = "new"
    /\ ValidNetwork(net)
    /\ \E order \in Perms(RemoveExplicit(Hosts(net), nodes)) :
          LET r == PostInit(net, nodes, order)
          IN  /\ nodes' = r.nodes
              /\ built' = r.err
              /\ scrambled' = (order # InsertionSort(order))
    /\ UNCHANGED <<net, inNodes, nodes2, built2, scrambled2>>
    /\ UNCHANGED <<certVars, extVars>>

\* A second construction from the same address block, node order and
\* explicit assignments (fresh node objects), in another process: the set
\* iteration order is drawn anew.
Reconstruct ==
    /\ built \in {"ok", "IndexError"}
    /\ built2 = "new"
    /\ \E order \in Perms(RemoveExplicit(Hosts(net), inNodes)) :
          LET r == PostInit(net, inNodes, order)
          IN  /\ nodes2' = r.nodes
              /\ built2' = r.err
              /\ scrambled2' = (order # InsertionSort(order))
    /\ UNCHANGED <<net, inNodes, nodes, built, scrambled>>
    /\ UNCHANGED <<certVars, extVars>>

(***************************************************************************)
(* io.py: artifact sets on the filesystem.                                 *)
(***************************************************************************)
\* The authority's artifact set; node k's artifact set is k.
CaSet == 0
CertNodes == 1..NumCertNodes
ArtifactSets == {CaSet} \cup CertNodes

\* for ext in ("crt", "key", "png")
Exts == {"crt", "key", "png"}

\* A file is absent, or holds the content it had when the current call
\* started, or content the external process wrote during the current call.
NoFile == "absent"
OldFile == "old"
NewFile == "new"

NoFiles == [e \in Exts |-> NoFile]

\* os.path.exists
Exists(f) == f # NoFile

\* ca_outputs / node_outputs with exist="all" and exist="any".
AllExist(fs) == \A e \in Exts : Exists(fs[e])
AnyExist(fs) == \E e \in Exts : Exists(fs[e])

\* ca_outputs / node_outputs with rm_exist=True: unlink each existing file.
\* (KeepExisting: the faulty variant that unlinks nothing.)
KeepExisting(fs) == fs
RmExist(fs) == [e \in Exts |-> NoFile]

\* The three states of an artifact set.
Absent(fs) == ~AnyExist(fs)
Complete(fs) == AllExist(fs)
Partial(fs) == AnyExist(fs) /\ ~AllExist(fs)

\* sign_node lines 165-169 and network_cert lines 208-211:
\*   if not outputs(exist="all"):
\*       if outputs(exist="any"): raise ValueError(...)
\*       run the signing process
\* (CheckNoSkip: the faulty variant without the outer test.)
CheckNoSkip(fs) == IF AnyExist(fs) THEN "raise" ELSE "run"
Check(fs) ==
    IF AllExist(fs) THEN "skip"
    ELSE IF AnyExist(fs) THEN "raise"
    ELSE "run"

\* dclient.containers.run(...): the external process writes the files
\* `written` (any subset: the process is opaque) and then returns or raises.
Written(fs, written) == [e \in Exts |-> IF e \in written THEN NewFile ELSE fs[e]]

\* A run that behaved as an atomic signing process does: all three files and
\* a normal return, or no file and an exception.
CleanRun(exc, written) == IF exc THEN written = {} ELSE written = Exts

\* What a file written during the last call is to the next call.
Aged(fs) == [e \in Exts |-> IF Exists(fs[e]) THEN OldFile ELSE NoFile]

Ops == {"network_cert", "sign_node", "create_node_cert"}

\* The artifact set a call is a signing request for.
Target(c) == IF c.op = "network_cert" THEN CaSet ELSE c.node

\* network_cert is entered with overwrite=True only when called directly:
\* sign_node calls network_cert(network=network).
CaOverwrite == call.op = "network_cert" /\ call.ow
\* sign_node's overwrite; create_node_cert calls sign_node without it.
NodeOverwrite == call.op = "sign_node" /\ call.ow

NoCall == [op |-> "none", node |-> CaSet, ow |-> FALSE]

InitCert ==
    /\ files = [s \in ArtifactSets |-> NoFiles]
    /\ invoked = [s \in ArtifactSets |-> 0]
    /\ dirExists = FALSE
    /\ pc = "idle"
    /\ call = NoCall
    /\ pre = [s \in ArtifactSets |-> NoFiles]
    /\ result = "none"
    /\ errorSet = {}
    /\ prevDone = {}
    /\ clean = TRUE

\* Whether the call that has just finished was a signing request without
\* overwrite that found its artifact set Absent and completed it.
CompletedAbsent ==
    /\ call.op \in {"network_cert", "sign_node"}
    /\ ~call.ow
    /\ result = "ok"
    /\ Absent(pre[Target(call)])
    /\ Complete(files[Target(call)])

\* The caller starts network_cert(network, overwrite), sign_node(network,
\* node, overwrite) or network.create_node_cert().
Start ==
    /\ pc = "idle"
    /\ \E op \in Ops, n \in CertNodes, ow \in BOOLEAN :
          /\ op = "network_cert" => n = 1
          /\ op = "create_node_cert" => (n = 1 /\ ~ow)
          /\ call' = [op |-> op, node |-> IF op = "network_cert" THEN CaSet ELSE n,
                      ow |-> ow]
    /\ prevDone' = IF CompletedAbsent THEN {Target(call)} ELSE {}
    /\ files' = [s \in ArtifactSets |-> Aged(files[s])]
    /\ pre' = [s \in ArtifactSets |-> Aged(files[s])]
    /\ invoked' = [s \in ArtifactSets |-> 0]
    /\ result' = "running"
    /\ errorSet' = {}
    /\ pc' = "nc_prepare"
    /\ UNCHANGED <<dirExists, clean>>
    /\ UNCHANGED <<allocVars, extVars>>

\* sign_node line 154-155 / network_cert lines 196-199: make_temp_dir, then
\* with overwrite the authority's existing files are unlinked.
NcPrepare ==
    /\ pc = "nc_prepare"
    /\ dirExists' = TRUE
    /\ files' = IF CaOverwrite
                THEN [files EXCEPT ![CaSet] = RmExist(@)]
                ELSE files
    /\ pc' = "nc_check"
    /\ UNCHANGED <<invoked, call, pre, result, errorSet, prevDone, clean>>
    /\ UNCHANGED <<allocVars, extVars>>

\* Where network_cert returns to: its caller, or sign_node line 156.
AfterNetworkCert == IF call.op = "network_cert" THEN "idle" ELSE "sn_prepare"
ResultAfterNetworkCert == IF call.op = "network_cert" THEN "ok" ELSE result

\* network_cert lines 208-211: nothing to do when all three files exist;
\* ValueError when only some do; otherwise the process is to be run.
NcCheck ==
    /\ pc = "nc_check"
    /\ pc' = CASE Check(files[CaSet]) = "skip" -> AfterNetworkCert
               [] Check(files[CaSet]) = "raise" -> "idle"
               [] OTHER -> "nc_run"
    /\ result' = CASE Check(files[CaSet]) = "skip" -> ResultAfterNetworkCert
                   [] Check(files[CaSet]) = "raise" -> "ValueError"
                   [] OTHER -> result
    /\ errorSet' = IF Check(files[CaSet]) = "raise" THEN {CaSet} ELSE errorSet
    /\ UNCHANGED <<files, invoked, dirExists, call, pre, prevDone, clean>>
    /\ UNCHANGED <<allocVars, extVars>>

\* network_cert lines 212-224: run the authority's signing process; an
\* exception is re-raised as it is.
NcRun ==
    /\ pc = "nc_run"
    /\ \E exc \in BOOLEAN, written \in SUBSET Exts :
          /\ files' = [files EXCEPT ![CaSet] = Written(@, written)]
          /\ pc' = IF exc THEN "idle" ELSE AfterNetworkCert
          /\ result' = IF exc THEN "ProcessError" ELSE ResultAfterNetworkCert
          /\ errorSet' = IF exc THEN {CaSet} ELSE errorSet
          /\ clean' = (clean /\ CleanRun(exc, written))
    /\ invoked' = [invoked EXCEPT ![CaSet] = @ + 1]
    /\ UNCHANGED <<dirExists, call, pre, prevDone>>
    /\ UNCHANGED <<allocVars, extVars>>

\* sign_node lines 156-157: with overwrite the node's existing files are
\* unlinked.
SnPrepare ==
    /\ pc = "sn_prepare"
    /\ files' = IF NodeOverwrite
                THEN [files EXCEPT ![call.node] = RmExist(@)]
                ELSE files
    /\ pc' = "sn_check"
    /\ UNCHANGED <<invoked, dirExists, call, pre, result, errorSet, prevDone, clean>>
    /\ UNCHANGED <<allocVars, extVars>>

\* Where sign_node returns to: its caller, or create_node_cert line 232.
AfterSignNode == IF call.op = "sign_node" THEN "idle" ELSE "cn_config"
ResultAfterSignNode == IF call.op = "sign_node" THEN "ok" ELSE result

\* sign_node lines 165-169.
SnCheck ==
    /\ pc = "sn_check"
    /\ pc' = CASE Check(files[call.node]) = "skip" -> AfterSignNode
               [] Check(files[call.node]) = "raise" -> "idle"
               [] OTHER -> "sn_run"
    /\ result' = CASE Check(files[call.node]) = "skip" -> ResultAfterSignNode
                   [] Check(files[call.node]) = "raise" -> "ValueError"
                   [] OTHER -> result
    /\ errorSet' = IF Check(files[call.node]) = "raise" THEN {call.node} ELSE errorSet
    /\ UNCHANGED <<files, invoked, dirExists, call, pre, prevDone, clean>>
    /\ UNCHANGED <<allocVars, extVars>>

\* sign_node lines 170-183: run the node's signing process; an exception is
\* re-raised as it is.
SnRun ==
    /\ pc = "sn_run"
    /\ \E exc \in BOOLEAN, written \in SUBSET Exts :
          /\ files' = [files EXCEPT ![call.node] = Written(@, written)]
          /\ pc' = IF exc THEN "idle" ELSE AfterSignNode
          /\ result' = IF exc THEN "ProcessError" ELSE ResultAfterSignNode
          /\ errorSet' = IF exc THEN {call.node} ELSE errorSet
          /\ clean' = (clean /\ CleanRun(exc, written))
    /\ invoked' = [invoked EXCEPT ![call.node] = @ + 1]
    /\ UNCHANGED <<dirExists, call, pre, prevDone>>
    /\ UNCHANGED <<allocVars, extVars>>

\* create_node_cert lines 232-252: the node's config is composed from the
\* file names (no file is read or written), then the loop goes on with the
\* next node of self.nodes.
CnConfig ==
    /\ pc = "cn_config"
    /\ call' = IF call.node < NumCertNodes THEN [call EXCEPT !.node = @ + 1] ELSE call
    /\ pc' = IF call.node < NumCertNodes THEN "nc_prepare" ELSE "idle"
    /\ result' = IF call.node < NumCertNodes THEN result ELSE "ok"
    /\ UNCHANGED <<files, invoked, dirExists, pre, errorSet, prevDone, clean>>
    /\ UNCHANGED <<allocVars, extVars>>

(***************************************************************************)
(* io.py under concurrent callers: create_network_cert, then one           *)
(* sign_node call per node, each in a thread or process of its own.  Every *)
(* file-system access and every file the signing process writes is a step  *)
(* of its own, so the calls interleave at that granularity.                *)
(***************************************************************************)
\* The callers: CaSet names the caller of network.create_network_cert(),
\* n in Workers the caller of sign_node(network, node n, overwrite=pow[n]).
Workers == CertNodes
Callers == {CaSet} \cup Workers

\* The artifact set whose files node_outputs(network, node) names for the
\* sign_node call of worker p: the node's own (the names are distinct).
SameSet(p) == CHOOSE w \in Workers : TRUE
NodeSet(p) == p

\* The artifact set the signing process of caller p writes at its position.
RunTarget(p) == IF ppc[p] = "nc_run" THEN CaSet ELSE NodeSet(p)

AllOld == [e \in Exts |-> OldFile]
OnlyCrt == [e \in Exts |-> IF e = "crt" THEN OldFile ELSE NoFile]

\* What the callers may find on disk: every artifact set Absent, Complete
\* or Partial; the directory exists when a file in it does.
InitPar ==
    /\ files \in [ArtifactSets -> {NoFiles, AllOld, OnlyCrt}]
    /\ dirExists \in BOOLEAN
    /\ (\E s \in ArtifactSets : AnyExist(files[s])) => dirExists
    /\ invoked = [s \in ArtifactSets |-> 0]
    /\ pre = files
    /\ clean = TRUE
    /\ ppc = [p \in Callers |-> IF p = CaSet THEN "start" ELSE "idle"]
    /\ pow \in [Workers -> BOOLEAN]
    /\ pres = [p \in Callers |-> "none"]
    /\ pc = "idle"
    /\ call = NoCall
    /\ result = "none"
    /\ errorSet = {}
    /\ prevDone = {}

IdlePar ==
    /\ ppc = [p \in Callers |-> "idle"]
    /\ pow = [n \in Workers |-> FALSE]
    /\ pres = [p \in Callers |-> "none"]

parFrame == <<allocVars, pc, call, result, errorSet, prevDone, fwVars, confVars, lhVars, serVars, shareVars, saveVars, pathVars>>

\* Where caller p goes once its network_cert step has returned.
ParAfterNetworkCert(p) == IF p = CaSet THEN "done" ELSE "sn_prepare"
ParResultAfterNetworkCert(p) == IF p = CaSet THEN "ok" ELSE pres[p]

\* The caller hands the nodes to parallel sign_node calls once
\* create_network_cert has returned and the authority's three files exist.
ParBegin ==
    /\ ppc[CaSet] = "done"
    /\ \A n \in Workers : ppc[n] = "idle"
    /\ Complete(files[CaSet])
    /\ files' = [s \in ArtifactSets |-> Aged(files[s])]
    /\ pre' = [s \in ArtifactSets |-> Aged(files[s])]
    /\ invoked' = [s \in ArtifactSets |-> 0]
    /\ ppc' = [p \in Callers |-> IF p = CaSet THEN "done" ELSE "start"]
    /\ UNCHANGED <<dirExists, clean, pow, pres>>
    /\ UNCHANGED parFrame

\* sign_node line 154 and network_cert lines 196-199: make_temp_dir; the
\* authority's files are never removed here (overwrite is False).
ParNcPrepare(p) ==
    /\ ppc[p] = "start"
    /\ dirExists' = TRUE
    /\ ppc' = [ppc EXCEPT ![p] = "nc_check"]
    /\ UNCHANGED <<files, invoked, pre, clean, pow, pres>>
    /\ UNCHANGED parFrame

\* network_cert lines 208-211 as caller p executes them.
ParNcCheck(p) ==
    /\ ppc[p] = "nc_check"
    /\ LET c == Check(files[CaSet])
       IN  /\ ppc' = [ppc EXCEPT ![p] = IF c = "skip" THEN ParAfterNetworkCert(p)
                                        ELSE IF c = "raise" THEN "done"
                                        ELSE "nc_run"]
           /\ pres' = [pres EXCEPT ![p] = IF c = "skip" THEN ParResultAfterNetworkCert(p)
                                          ELSE IF c = "raise" THEN "ValueError"
                                          ELSE @]
    /\ UNCHANGED <<files, invoked, dirExists, pre, clean, pow>>
    /\ UNCHANGED parFrame

\* The signing process caller p is waiting for (lines 171-181, 213-222)
\* writes one of its output files.
ParWrite(p) ==
    /\ ppc[p] \in {"nc_run", "sn_run"}
    /\ \E e \in Exts :
          /\ files[RunTarget(p)][e] # NewFile
          /\ files' = [files EXCEPT ![RunTarget(p)][e] = NewFile]
    /\ UNCHANGED <<invoked, dirExists, pre, clean, ppc, pow, pres>>
    /\ UNCHANGED parFrame

\* The signing process of caller p ends: containers.run returns, or raises
\* and the except clause re-raises (lines 182-183, 223-224).
ParEnd(p) ==
    /\ ppc[p] \in {"nc_run", "sn_run"}
    /\ \E exc \in BOOLEAN :
          /\ invoked' = [invoked EXCEPT ![RunTarget(p)] = @ + 1]
          /\ clean' = (clean /\ IF exc
                                THEN \A e \in Exts : files[RunTarget(p)][e] # NewFile
                                ELSE \A e \in Exts : files[RunTarget(p)][e] = NewFile)
          /\ ppc' = [ppc EXCEPT ![p] = IF exc \/ ppc[p] = "sn_run" THEN "done"
                                        ELSE ParAfterNetworkCert(p)]
          /\ pres' = [pres EXCEPT ![p] = IF exc THEN "ProcessError"
                                          ELSE IF ppc[p] = "sn_run" THEN "ok"
                                          ELSE ParResultAfterNetworkCert(p)]
    /\ UNCHANGED <<files, dirExists, pre, pow>>
    /\ UNCHANGED parFrame

\* sign_node lines 156-157 as worker p executes them.
ParSnPrepare(p) ==
    /\ ppc[p] = "sn_prepare"
    /\ files' = [files EXCEPT ![NodeSet(p)] = IF pow[p] THEN RmExist(@) ELSE @]
    /\ ppc' = [ppc EXCEPT ![p] = "sn_check"]
    /\ UNCHANGED <<invoked, dirExists, pre, clean, pow, pres>>
    /\ UNCHANGED parFrame

\* sign_node lines 165-169 as worker p executes them.
ParSnCheck(p) ==
    /\ ppc[p] = "sn_check"
    /\ LET c == Check(files[NodeSet(p)])
       IN  /\ ppc' = [ppc EXCEPT ![p] = IF c = "run" THEN "sn_run" ELSE "done"]
           /\ pres' = [pres EXCEPT ![p] = IF c = "skip" THEN "ok"
                                          ELSE IF c = "raise" THEN "ValueError"
                                          ELSE @]
    /\ UNCHANGED <<files, invoked, dirExists, pre, clean, pow>>
    /\ UNCHANGED parFrame

\* One step of caller p.
ParStep(p) ==
    \/ ParNcPrepare(p)
    \/ ParNcCheck(p)
    \/ ParWrite(p)
    \/ ParEnd(p)
    \/ ParSnPrepare(p)
    \/ ParSnCheck(p)

(***************************************************************************)
(* config.py / entities.py: firewall rules of a node.                      *)
(***************************************************************************)
\* An element of NebulaNode.groups is a str (a bare group label, modelled
\* as a record with the single field label) or an InOutboundItem (a record
\* of its six fields; "None" is None).
Labels == {"g", "h"}
LabelItem(l) == [label |-> l]
IsStr(item) == DOMAIN item = {"label"}

\* InOutboundItem(group=l): the other fields take their defaults.
WrongFieldItem(l) ==
    [port |-> "any", proto |-> "any", host |-> l,
     groups |-> "None", group |-> "None", local_cidr |-> "None"]
InOutboundItem(l) ==
    [port |-> "any", proto |-> "any", host |-> "any",
     groups |-> "None", group |-> l, local_cidr |-> "None"]

\* Explicit rule objects a caller may declare: a narrow rule, the rule
\* InOutboundItem() of defaults only, and a rule equal to a resolved label.
ExplicitRules ==
    { [port |-> "443", proto |-> "tcp", host |-> "any",
       groups |-> "None", group |-> "g", local_cidr |-> "None"],
      [port |-> "any", proto |-> "any", host |-> "any",
       groups |-> "None", group |-> "None", local_cidr |-> "None"],
      InOutboundItem("h") }

GroupItems == {LabelItem(l) : l \in Labels} \cup ExplicitRules

\* Lines 80-82: every str of self.groups is replaced in place.
ResolveGroups(gs) ==
    [k \in 1..Len(gs) |-> IF IsStr(gs[k]) THEN InOutboundItem(gs[k].label) ELSE gs[k]]

\* Line 83: Firewall(outbound=self.groups, inbound=self.groups); the
\* actions keep their defaults.
Firewall(gs) ==
    [outbound_action |-> "drop", inbound_action |-> "drop",
     outbound |-> gs, inbound |-> gs]

\* The caller's node object, the firewall sections its calls of
\* node.get_firewall_items_from_groups() returned, and the groups it was
\* declared with.
InitFirewall ==
    /\ fwDeclared \in SeqsUpTo(GroupItems, MaxGroups)
    /\ fwGroups = fwDeclared
    /\ fwOut = <<>>

IdleFirewall ==
    /\ fwDeclared = <<>>
    /\ fwGroups = <<>>
    /\ fwOut = <<>>

fwFrame == <<allocVars, certVars, parVars, confVars, lhVars, serVars, shareVars, saveVars, pathVars>>

\* node.get_firewall_items_from_groups(): fwOut gathers the returned
\* sections, first call first.
GetFirewallItemsFromGroups ==
    /\ Len(fwOut) < MaxFirewallCalls
    /\ fwGroups' = ResolveGroups(fwGroups)
    /\ fwOut' = Append(fwOut, Firewall(ResolveGroups(fwGroups)))
    /\ UNCHANGED fwDeclared
    /\ UNCHANGED fwFrame

(***************************************************************************)
(* entities.py: lighthouses and create_node_cert's configurations.         *)
(***************************************************************************)
\* The addresses the nodes of the composed network hold once it has been
\* constructed, and the public endpoints a node may declare.
ConfIps == {NetBase + 1, NetBase + 2}
NoPublic == "None"
Endpoints == {"203.0.113.1:4242", "203.0.113.2:4242"}
ConfGroups == {<<>>, <<LabelItem("g")>>}
NoConfig == [set |-> FALSE]
ConfNodes == 1..NumConfNodes

\* filter(lambda n: n.am_lighthouse, ns) from node j on, as the indices
\* (object identities) of the nodes kept.
RECURSIVE FilterLighthouse(_, _)
FilterLighthouse(ns, j) ==
    IF j > Len(ns) THEN <<>>
    ELSE IF ns[j].am_lighthouse THEN <<j>> \o FilterLighthouse(ns, j + 1)
    ELSE FilterLighthouse(ns, j + 1)

\* NebulaNetwork.lighthouses (lines 205-209).
LighthousesReversed(ns) ==
    LET r == FilterLighthouse(ns, 1)
    IN  [k \in 1..Len(r) |-> r[Len(r) + 1 - k]]
Lighthouses(ns) == FilterLighthouse(ns, 1)

\* Node lists of every length up to MaxNodes, any addresses and flags.
InitLh ==
    /\ lnodes \in SeqsUpTo([ip : ConfIps, am_lighthouse : BOOLEAN], MaxNodes)
    /\ lhRead = <<>>
    /\ lhAt = <<>>

IdleLh ==
    /\ lnodes = <<>>
    /\ lhRead = <<>>
    /\ lhAt = <<>>

lhFrame == <<allocVars, certVars, parVars, fwVars, confVars, serVars, shareVars, saveVars, pathVars>>

\* The caller assigns some node's am_lighthouse.
SetLighthouse ==
    /\ \E i \in 1..Len(lnodes), b \in BOOLEAN :
          /\ lnodes[i].am_lighthouse # b
          /\ lnodes' = [lnodes EXCEPT ![i].am_lighthouse = b]
    /\ UNCHANGED <<lhRead, lhAt>>
    /\ UNCHANGED lhFrame

\* The caller reads network.lighthouses; lhAt records the flags then.
ReadLighthouses ==
    /\ lhRead' = Lighthouses(lnodes)
    /\ lhAt' = [i \in 1..Len(lnodes) |-> lnodes[i].am_lighthouse]
    /\ UNCHANGED lnodes
    /\ UNCHANGED lhFrame

\* dict([(n.ip, [n.public]) for n in self.lighthouses]): a later pair with
\* the same key replaces the earlier one.
LastWith(ns, lh, ip) ==
    CHOOSE k \in 1..Len(lh) :
        /\ ns[lh[k]].ip = ip
        /\ \A m \in (k + 1)..Len(lh) : ns[lh[m]].ip # ip
ShmContents(ns, lh) ==
    [ip \in {ns[lh[k]].ip : k \in 1..Len(lh)} |->
        <<ns[lh[LastWith(ns, lh, ip)]].public>>]

\* StaticHostMap(contents=...) validates every value as a list of
\* RoutableIPPort: None is refused.
ShmValid(c) == \A ip \in DOMAIN c : \A k \in 1..Len(c[ip]) : c[ip][k] # NoPublic

\* StaticHostMap(): contents takes its default, the empty dict.
EmptyShm == <<>>

\* Lines 241-246.
ShmFor(ns, i) ==
    IF ~ns[i].am_lighthouse THEN ShmContents(ns, Lighthouses(ns)) ELSE EmptyShm

\* Lines 232-252 for node i: the node's configuration.
ComposedConfig(ns, i) ==
    [set |-> TRUE,
     pki |-> [ca |-> <<CaSet, "crt">>, cert |-> <<i, "crt">>, key |-> <<i, "key">>],
     static_host_map |-> ShmFor(ns, i),
     lighthouse |-> [am_lighthouse |-> ns[i].am_lighthouse],
     firewall |-> Firewall(ResolveGroups(ns[i].groups))]

InitConf ==
    /\ cnodes \in [ConfNodes -> [ip : ConfIps, am_lighthouse : BOOLEAN,
                                 public : Endpoints \cup {NoPublic},
                                 groups : ConfGroups, config : {NoConfig}]]
    /\ ci = 0
    /\ cres = "none"

IdleConf ==
    /\ cnodes = <<>>
    /\ ci = 0
    /\ cres = "none"

confFrame == <<allocVars, certVars, parVars, fwVars, lhVars, serVars, shareVars, saveVars, pathVars>>

\* One iteration of create_node_cert's loop (lines 227-252) for the next
\* node: sign_node returns or raises (its steps are those of Spec); then
\* the groups are resolved in place, the static host map is built and
\* validated, and the configuration is attached to the node.
CreateNodeCertStep ==
    /\ cres = "none"
    /\ ci < NumConfNodes
    /\ \E signed \in BOOLEAN :
          LET i == ci + 1
              resolved == [cnodes EXCEPT ![i].groups = ResolveGroups(@)]
          IN  IF ~signed
              THEN /\ cres' = "SigningError"
                   /\ UNCHANGED <<cnodes, ci>>
              ELSE IF ~ShmValid(ShmFor(cnodes, i))
              THEN /\ cres' = "ValidationError"
                   /\ cnodes' = resolved
                   /\ UNCHANGED ci
              ELSE /\ cnodes' = [resolved EXCEPT ![i].config = ComposedConfig(cnodes, i)]
                   /\ ci' = i
                   /\ cres' = IF i = NumConfNodes THEN "ok" ELSE "none"
    /\ UNCHANGED confFrame

(***************************************************************************)
(* base.py / config.py: serialization of SkipNoneField models.  A value    *)
(* is "None", a falsy zero-value ("False", "0", "[]") or another value     *)
(* ("True", "value").                                                      *)
(***************************************************************************)
ModelClasses == {"Pki", "NebulaConfig"}

\* The fields of the two classes (of NebulaConfig: pki, the three skippable
\* fields and a field of each other kind).
Fields(c) ==
    IF c = "Pki"
    THEN {"ca", "cert", "key", "blocklist", "disconnect_invalid"}
    ELSE {"pki", "routines", "message_metrics", "sshd",
          "preferred_ranges", "logging", "stats"}

\* The class's _skip list.
Skip(c) ==
    IF c = "Pki"
    THEN {"blocklist", "disconnect_invalid"}
    ELSE {"logging", "stats", "preferred_ranges"}

\* A field's default; "required" when it has none.
Default(c, f) ==
    IF f \in {"ca", "cert", "key", "pki"} THEN "required"
    ELSE IF f = "disconnect_invalid" THEN "True"
    ELSE IF f = "message_metrics" THEN "False"
    ELSE IF f \in {"routines", "sshd"} THEN "value"
    ELSE "None"

\* The values a field's type admits.
Admits(c, f) ==
    IF f \in {"ca", "cert", "key", "pki"} THEN {"value"}
    ELSE IF f = "disconnect_invalid" THEN {"None", "False", "True"}
    ELSE IF f = "message_metrics" THEN {"False", "True"}
    ELSE IF f = "routines" THEN {"0", "value"}
    ELSE IF f \in {"blocklist", "preferred_ranges"} THEN {"None", "[]", "value"}
    ELSE {"None", "value"}

\* What a caller may pass for a field: a value of its type, or nothing when
\* the field has a default.
MayGive(c, f) ==
    Admits(c, f) \cup (IF Default(c, f) = "required" THEN {} ELSE {"unset"})

Falsy == {"False", "0", "[]"}

\* _do_skip_none (lines 51-56): the fields kept, with their values.
DoSkipFalsy(inst, skip) ==
    [f \in {g \in DOMAIN inst : (inst[g] \notin Falsy \cup {"None"}) \/ (g \notin skip)} |-> inst[f]]
DoSkipNone(inst, skip) ==
    [f \in {g \in DOMAIN inst : (inst[g] # "None") \/ (g \notin skip)} |-> inst[f]]

InitSer ==
    /\ sClass \in ModelClasses
    /\ sGiven \in UNION {[Fields(c) -> Falsy \cup {"None", "True", "value", "unset"}] :
                         c \in ModelClasses}
    /\ DOMAIN sGiven = Fields(sClass)
    /\ \A f \in Fields(sClass) : sGiven[f] \in MayGive(sClass, f)
    /\ sInst = <<>>
    /\ sOut = <<>>
    /\ sStage = "given"

IdleSer ==
    /\ sClass = "Pki"
    /\ sGiven = <<>>
    /\ sInst = <<>>
    /\ sOut = <<>>
    /\ sStage = "given"

serFrame == <<allocVars, certVars, parVars, fwVars, confVars, lhVars, shareVars, saveVars, pathVars>>

\* Pki(...) / NebulaConfig(...): a field not passed takes its default.
ConstructModel ==
    /\ sStage = "given"
    /\ sInst' = [f \in Fields(sClass) |->
                    IF sGiven[f] = "unset" THEN Default(sClass, f) ELSE sGiven[f]]
    /\ sStage' = "built"
    /\ UNCHANGED <<sClass, sGiven, sOut>>
    /\ UNCHANGED serFrame

\* model.model_dump(): SkipNoneField.model_skip_none (lines 67-69).
ModelDump ==
    /\ sStage = "built"
    /\ sOut' = DoSkipNone(sInst, Skip(sClass))
    /\ sStage' = "dumped"
    /\ UNCHANGED <<sClass, sGiven, sInst>>
    /\ UNCHANGED serFrame

(***************************************************************************)
(* entities.py: the caller's node objects passed to two networks.  The     *)
(* List[NebulaNode] field keeps the NebulaNode instances it is given, so   *)
(* model_post_init assigns to the caller's objects: nodes holds them.      *)
(***************************************************************************)
ValidNetworks == {n \in [ip : IPs, cidr : Cidrs] : ValidNetwork(n)}

InitShare ==
    /\ net \in ValidNetworks
    /\ netB \in ValidNetworks
    /\ inNodes \in NodeLists
    /\ nodes = inNodes
    /\ built = "new"
    /\ builtB = "new"
    /\ scrambled = FALSE
    /\ nodes2 = <<>>
    /\ built2 = "new"
    /\ scrambled2 = FALSE

IdleShare ==
    /\ netB = [ip |-> NetBase, cidr |-> MaxCidr]
    /\ builtB = "new"

shareFrame == <<certVars, parVars, fwVars, confVars, lhVars, serVars, saveVars, pathVars>>

\* NebulaNetwork(ip=net.ip, cidr=net.cidr, nodes=nodes): the first network.
ConstructFirst ==
    /\ built = "new"
    /\ \E order \in Perms(RemoveExplicit(Hosts(net), nodes)) :
          LET r == PostInit(net, nodes, order)
          IN  /\ nodes' = r.nodes
              /\ built' = r.err
    /\ UNCHANGED <<net, inNodes, scrambled, nodes2, built2, scrambled2, netB, builtB>>
    /\ UNCHANGED shareFrame

\* NebulaNetwork(ip=netB.ip, cidr=netB.cidr, nodes=nodes): the second
\* network, given the same node objects after the first was built.
ConstructSecond ==
    /\ built = "ok"
    /\ builtB = "new"
    /\ \E order \in Perms(RemoveExplicit(Hosts(netB), nodes)) :
          LET r == PostInit(netB, nodes, order)
          IN  /\ nodes' = r.nodes
              /\ builtB' = r.err
    /\ UNCHANGED <<net, inNodes, built, scrambled, nodes2, built2, scrambled2, netB>>
    /\ UNCHANGED shareFrame

(***************************************************************************)
(* entities.py / io.py: get_nodes, dump_config and save_node_configs.      *)
(* A name is the sequence of its characters; the file {dir}/{name}.yaml is *)
(* identified by the name.                                                 *)
(***************************************************************************)
Names == {<<"a">>, <<"b">>, <<"a", "b">>}
SaveNodes == 1..NumCertNodes

\* f in name, for str f and str name.
Contains(f, name) ==
    \E o \in 0..(Len(name) - Len(f)) :
        \A k \in 1..Len(f) : name[o + k] = f[k]

\* An argument that is None, a node object (node of the network) or a str.
NoneArg == [kind |-> "none", node |-> CaSet, str |-> <<>>]
NodeArg(i) == [kind |-> "node", node |-> i, str |-> <<>>]
StrArg(s) == [kind |-> "str", node |-> CaSet, str |-> s]
Args == {NoneArg} \cup {NodeArg(i) : i \in SaveNodes} \cup {StrArg(s) : s \in Names}

\* get_nodes(filter) (lines 276-288): with a filter, line 288 calls the
\* parameter named filter, a str, instead of the builtin it shadows.
GetNodes(ns, f) ==
    IF f.kind = "none"
    THEN [err |-> "ok", val |-> [k \in 1..Len(ns) |-> k]]
    ELSE [err |-> "TypeError", val |-> <<>>]

\* node.dump_config(output) (lines 63-77) for a node whose config is set or
\* not, on the files fs; output <<>> is None.  The assert of line 72 is
\* compiled away under -O, and line 73 then fails on None.
DumpOpensFirst(composed, output, fs) ==
    [err |-> IF composed THEN "ok"
             ELSE IF pyOptimized THEN "AttributeError" ELSE "AssertionError",
     files |-> IF output # <<>> THEN [fs EXCEPT ![output] = NewFile] ELSE fs]
DumpConfig(composed, output, fs) ==
    IF ~composed
    THEN [err |-> IF pyOptimized THEN "AttributeError" ELSE "AssertionError",
          files |-> fs]
    ELSE [err |-> "ok",
          files |-> IF output # <<>> THEN [fs EXCEPT ![output] = NewFile] ELSE fs]

\* save_config's loop (lines 243-250) over the nodes sel from position j,
\* consumed by save_node_configs' list comprehension: the first dump that
\* raises ends it.
RECURSIVE SaveFrom(_, _, _, _)
SaveFrom(ns, sel, j, fs) ==
    IF j > Len(sel) THEN [err |-> "ok", files |-> fs]
    ELSE LET d == DumpConfig(ns[sel[j]].composed, ns[sel[j]].name, fs)
         IN  IF d.err # "ok" THEN d ELSE SaveFrom(ns, sel, j + 1, d.files)

\* save_config (lines 237-250): name is bound for a node object (its name)
\* and for None, and left unbound for a str.
SaveConfig(ns, x, fs) ==
    IF x.kind = "str" THEN [err |-> "UnboundLocalError", files |-> fs]
    ELSE LET g == GetNodes(ns, IF x.kind = "node" THEN StrArg(ns[x.node].name) ELSE NoneArg)
         IN  IF g.err # "ok" THEN [err |-> g.err, files |-> fs]
             ELSE SaveFrom(ns, g.val, 1, fs)

AgedFiles(fs) == [n \in DOMAIN fs |-> IF Exists(fs[n]) THEN OldFile ELSE NoFile]

NoSaveCall == [op |-> "none", arg |-> NoneArg, output |-> <<>>]

InitSave ==
    /\ vnodes \in [SaveNodes -> [name : Names, composed : BOOLEAN]]
    /\ cfgFiles \in [Names -> {NoFile, OldFile}]
    /\ pyOptimized \in BOOLEAN
    /\ vcall = NoSaveCall
    /\ vres = "none"
    /\ vret = <<>>

IdleSave ==
    /\ vnodes = <<>>
    /\ cfgFiles = <<>>
    /\ pyOptimized = FALSE
    /\ vcall = NoSaveCall
    /\ vres = "none"
    /\ vret = <<>>

saveFrame == <<allocVars, certVars, parVars, fwVars, confVars, lhVars, serVars, shareVars, pathVars>>

\* The caller calls network.get_nodes(f).
CallGetNodes ==
    /\ \E f \in {a \in Args : a.kind # "node"} :
          /\ vcall' = [op |-> "get_nodes", arg |-> f, output |-> <<>>]
          /\ vres' = GetNodes(vnodes, f).err
          /\ vret' = GetNodes(vnodes, f).val
    /\ cfgFiles' = AgedFiles(cfgFiles)
    /\ UNCHANGED <<vnodes, pyOptimized>>
    /\ UNCHANGED saveFrame

\* The caller calls node.dump_config(output) on a node of the network.
CallDumpConfig ==
    /\ \E i \in SaveNodes, output \in Names \cup {<<>>} :
          LET d == DumpConfig(vnodes[i].composed, output, AgedFiles(cfgFiles))
          IN  /\ vcall' = [op |-> "dump_config", arg |-> NodeArg(i), output |-> output]
              /\ vres' = d.err
              /\ cfgFiles' = d.files
    /\ vret' = <<>>
    /\ UNCHANGED <<vnodes, pyOptimized>>
    /\ UNCHANGED saveFrame

\* The caller calls network.save_node_configs(node=x).
CallSaveNodeConfigs ==
    /\ \E x \in Args :
          LET r == SaveConfig(vnodes, x, AgedFiles(cfgFiles))
          IN  /\ vcall' = [op |-> "save_node_configs", arg |-> x, output |-> <<>>]
              /\ vres' = r.err
              /\ cfgFiles' = r.files
    /\ vret' = <<>>
    /\ UNCHANGED <<vnodes, pyOptimized>>
    /\ UNCHANGED saveFrame

(***************************************************************************)
(* entities.py / io.py: the artifact files by their paths.  All files of a *)
(* network lie in one directory, so a file is identified by its base name  *)
(* (a sequence of characters or of spelled-out values) and its extension;  *)
(* a file's content is identified by the artifact set it was signed for.   *)
(***************************************************************************)
\* The network whose paths are modelled: cert_authority "a" at CertNet's
\* address and prefix length.
PathAuthority == <<"a">>

\* ca_cert_prefix (lines 132-136) without the directory:
\* {cert_authority}_{ip}_{cidr}, the address and the prefix length each
\* spelled out as one element.
CaBase(ca, n) == ca \o <<"_">> \o <<ToString(n.ip)>> \o <<"_">> \o <<ToString(n.cidr)>>

\* node_cert_prefix (lines 138-149) without the directory: the node's name.
NodeBase(name) == name

PathNet == [ip |-> NetBase, cidr |-> MaxCidr - MaxHostBits]

\* Names a node may be given: any str, among them the authority's base name.
PathNames == {<<"a">>, <<"b">>, CaBase(PathAuthority, PathNet)}
PathBases == {NodeBase(nm) : nm \in PathNames} \cup {CaBase(PathAuthority, PathNet)}

\* Who a file was signed for: the authority or node n.
CaOwner == "ca"
NodeOwner(n) == ToString(n)

\* The signing process writes the files in written for owner who.
WrittenBy(fs, written, who) == [e \in Exts |-> IF e \in written THEN who ELSE fs[e]]

\* The owners of the files that rm_exist=True removes from fs.
Owners(fs) == {fs[e] : e \in {x \in Exts : Exists(fs[x])}}

\* network_cert(network) (lines 186-224) on the files fs, the signing
\* process, if run, raising or not after writing the files in written.
NetworkCertOn(fs, exc, written) ==
    LET base == CaBase(PathAuthority, PathNet)
        c == Check(fs[base])
    IN  IF c = "skip" THEN [err |-> "ok", files |-> fs]
        ELSE IF c = "raise" THEN [err |-> "ValueError", files |-> fs]
        ELSE [err |-> IF exc THEN "ProcessError" ELSE "ok",
              files |-> [fs EXCEPT ![base] = WrittenBy(@, written, CaOwner)]]

\* sign_node(network, node n, overwrite=ow) (lines 139-183) on the files
\* fs; exc and written are the outcomes of the two signing processes
\* (authority, node), if run.
SignNodeOn(fs, n, ow, exc, written) ==
    LET nc == NetworkCertOn(fs, exc[1], written[1])
        base == NodeBase(pnames[n])
        kept == IF ow THEN [nc.files EXCEPT ![base] = RmExist(@)] ELSE nc.files
        c == Check(kept[base])
    IN  IF nc.err # "ok"
        THEN [err |-> nc.err, files |-> nc.files, ran |-> FALSE, deleted |-> {}]
        ELSE IF c = "skip"
        THEN [err |-> "ok", files |-> kept, ran |-> FALSE, deleted |-> {}]
        ELSE IF c = "raise"
        THEN [err |-> "ValueError", files |-> kept, ran |-> FALSE, deleted |-> {}]
        ELSE [err |-> IF exc[2] THEN "ProcessError" ELSE "ok",
              files |-> [kept EXCEPT ![base] = WrittenBy(@, written[2], NodeOwner(n))],
              ran |-> TRUE,
              deleted |-> IF ow THEN Owners(nc.files[base]) ELSE {}]

NoPathCall == [node |-> CaSet, ow |-> FALSE]
NoPathOut == [err |-> "none", ran |-> FALSE, deleted |-> {}]

InitPaths ==
    /\ pnames \in [CertNodes -> PathNames]
    /\ pfiles = [b \in PathBases |-> NoFiles]
    /\ pcall = NoPathCall
    /\ pout = NoPathOut
    /\ pcalls = 0

IdlePaths ==
    /\ pnames = <<>>
    /\ pfiles = <<>>
    /\ pcall = NoPathCall
    /\ pout = NoPathOut
    /\ pcalls = 0

pathFrame == <<allocVars, certVars, parVars, fwVars, confVars, lhVars, serVars, shareVars, saveVars>>

\* The caller calls sign_node(network, node n, overwrite=ow).
SignNodeByPath ==
    /\ pcalls < MaxPathCalls
    /\ \E n \in CertNodes, ow \in BOOLEAN,
          exc \in [1..2 -> BOOLEAN], written \in [1..2 -> SUBSET Exts] :
          LET r == SignNodeOn(pfiles, n, ow, exc, written)
          IN  /\ pcall' = [node |-> n, ow |-> ow]
              /\ pout' = [err |-> r.err, ran |-> r.ran, deleted |-> r.deleted]
              /\ pfiles' = r.files
    /\ pcalls' = pcalls + 1
    /\ UNCHANGED pnames
    /\ UNCHANGED pathFrame

(***************************************************************************)
(* The specifications.                                                     *)
(***************************************************************************)
\* The network whose certificates are issued: NumCertNodes nodes without an
\* explicit address in the widest modelled block at NetBase.
CertNet == [ip |-> NetBase, cidr |-> MaxCidr - MaxHostBits]
CertInNodes == [k \in CertNodes |-> [ip |-> NoIp]]
CertOrder == CHOOSE o \in Perms(Hosts(CertNet)) : TRUE

\* The variables of the specifications that do not use them.
IdleExt == IdlePar /\ IdleFirewall /\ IdleConf /\ IdleLh /\ IdleSer /\ IdleShare /\ IdleSave /\ IdlePaths

Init ==
    /\ InitCert
    /\ net = CertNet
    /\ inNodes = CertInNodes
    /\ nodes = PostInit(CertNet, CertInNodes, CertOrder).nodes
    /\ built = PostInit(CertNet, CertInNodes, CertOrder).err
    /\ scrambled = FALSE
    /\ nodes2 = <<>>
    /\ built2 = "new"
    /\ scrambled2 = FALSE
    /\ IdleExt

Next ==
    \/ Start
    \/ NcPrepare
    \/ NcCheck
    \/ NcRun
    \/ SnPrepare
    \/ SnCheck
    \/ SnRun
    \/ CnConfig

Spec == Init /\ [][Next]_vars

AllocInit == InitAlloc /\ InitCert /\ IdleExt

AllocNext ==
    \/ ConstructInvalid
    \/ Construct
    \/ Reconstruct

SpecAlloc == AllocInit /\ [][AllocNext]_vars

\* The variables of the specifications that do not use them.
IdleAlloc ==
    /\ net = CertNet
    /\ inNodes = <<>>
    /\ nodes = <<>>
    /\ built = "new"
    /\ scrambled = FALSE
    /\ nodes2 = <<>>
    /\ built2 = "new"
    /\ scrambled2 = FALSE

ParInit == InitPar /\ IdleAlloc /\ IdleFirewall /\ IdleConf /\ IdleLh /\ IdleSer /\ IdleShare /\ IdleSave /\ IdlePaths

ParNext ==
    \/ ParBegin
    \/ \E p \in Callers : ParNcPrepare(p)
    \/ \E p \in Callers : ParNcCheck(p)
    \/ \E p \in Callers : ParWrite(p)
    \/ \E p \in Callers : ParEnd(p)
    \/ \E p \in Workers : ParSnPrepare(p)
    \/ \E p \in Workers : ParSnCheck(p)

SpecPar == ParInit /\ [][ParNext]_vars

FirewallInit == InitFirewall /\ IdleAlloc /\ InitCert /\ IdlePar /\ IdleConf /\ IdleLh /\ IdleSer /\ IdleShare /\ IdleSave /\ IdlePaths

FirewallNext == GetFirewallItemsFromGroups

SpecFirewall == FirewallInit /\ [][FirewallNext]_vars

ConfInit == InitConf /\ IdleAlloc /\ InitCert /\ IdlePar /\ IdleFirewall /\ IdleLh /\ IdleSer /\ IdleShare /\ IdleSave /\ IdlePaths

ConfNext == CreateNodeCertStep

SpecConf == ConfInit /\ [][ConfNext]_vars

LhInit == InitLh /\ IdleAlloc /\ InitCert /\ IdlePar /\ IdleFirewall /\ IdleConf /\ IdleSer /\ IdleShare /\ IdleSave /\ IdlePaths

LhNext ==
    \/ SetLighthouse
    \/ ReadLighthouses

SpecLh == LhInit /\ [][LhNext]_vars

SerInit == InitSer /\ IdleAlloc /\ InitCert /\ IdlePar /\ IdleFirewall /\ IdleConf /\ IdleLh /\ IdleShare /\ IdleSave /\ IdlePaths

SerNext ==
    \/ ConstructModel
    \/ ModelDump

SpecSer == SerInit /\ [][SerNext]_vars

ShareInit ==
    /\ InitShare /\ InitCert /\ IdlePar /\ IdleFirewall /\ IdleConf /\ IdleLh /\ IdleSer
    /\ IdleSave /\ IdlePaths

ShareNext ==
    \/ ConstructFirst
    \/ ConstructSecond

SpecShare == ShareInit /\ [][ShareNext]_vars

SaveInit ==
    /\ InitSave /\ IdleAlloc /\ InitCert /\ IdlePar /\ IdleFirewall /\ IdleConf /\ IdleLh /\ IdleSer
    /\ IdleShare /\ IdlePaths

SaveNext ==
    \/ CallGetNodes
    \/ CallDumpConfig
    \/ CallSaveNodeConfigs

SpecSave == SaveInit /\ [][SaveNext]_vars

PathsInit ==
    /\ InitPaths /\ IdleAlloc /\ InitCert /\ IdlePar /\ IdleFirewall /\ IdleConf
    /\ IdleLh /\ IdleSer /\ IdleShare /\ IdleSave

PathsNext == SignNodeByPath

SpecPaths == PathsInit /\ [][PathsNext]_vars

(***************************************************************************)
(* Properties of the certificate manager (checked under Spec).             *)
(***************************************************************************)
\* A top-level call has returned or raised.
Finished == pc = "idle" /\ result \in {"ok", "ValueError", "ProcessError"}
\* ... and it was a signing request for one artifact set.
FinishedRequest == Finished /\ call.op \in {"network_cert", "sign_node"}

\* No file of the set that was there when the call started is left.
NoOldFile(fs) == \A e \in Exts : fs[e] # OldFile

\* C1: the node-signing process is invoked only in a state where all three
\* authority files exist: whenever sign_node is about to run the node's
\* process, and whenever it has run it during the current call, the
\* authority artifact set is Complete (if signing the authority left it not
\* Complete, node signing is not attempted).
C1_NodeSignedOnlyUnderCompleteAuthority ==
    /\ pc = "sn_run" => Complete(files[CaSet])
    /\ \A n \in CertNodes : invoked[n] > 0 => Complete(files[CaSet])

\* C2: a signing request (network_cert or sign_node, with or without
\* overwrite) issued while its artifact set is Partial fails with the
\* integrity error, the set's signing process is not invoked and no file of
\* the set is created or deleted.
C2_PartialNeverRepaired ==
    (FinishedRequest /\ Partial(pre[Target(call)]))
        => /\ result = "ValueError"
           /\ invoked[Target(call)] = 0
           /\ files[Target(call)] = pre[Target(call)]

\* C3: when the signing process of an artifact set (Absent when the process
\* was started) raises, the error reaches the caller and the set is Absent
\* afterwards, never Partial.
C3_FailedSigningLeavesAbsent ==
    (Finished /\ result = "ProcessError")
        => \A s \in errorSet : Absent(files[s])

\* C9: idempotency of issuance.  A request without overwrite that finds its
\* artifact set Absent and returns has invoked the set's signing process
\* exactly once; when it left the set Complete, the next request without
\* overwrite for the same set does not invoke the process and leaves the
\* three files as they were (still Complete), and returns normally whenever
\* the authority was Complete too.
C9_SecondRequestIsNoOp ==
    /\ (FinishedRequest /\ ~call.ow /\ result = "ok" /\ Absent(pre[Target(call)]))
           => invoked[Target(call)] = 1
    /\ (FinishedRequest /\ ~call.ow /\ Target(call) \in prevDone)
           => /\ invoked[Target(call)] = 0
              /\ files[Target(call)] = pre[Target(call)]
              /\ Complete(files[Target(call)])
              /\ Complete(pre[CaSet]) => result = "ok"

\* A second sign_node for a node, right after the sign_node that completed
\* the node's set from Absent, has returned.
C9_Witness ==
    /\ FinishedRequest
    /\ call.op = "sign_node"
    /\ ~call.ow
    /\ Target(call) \in prevDone
    /\ result = "ok"

\* C10 as claimed: every signing request with overwrite on a Complete set
\* deletes the three existing files and invokes the set's signing process
\* exactly once.  Restricted to runs in which every earlier and current
\* process run was atomic (clean), so that no partial write or silent
\* failure is involved.
C10_OverwriteAlwaysResigns ==
    (FinishedRequest /\ call.ow /\ Complete(pre[Target(call)]) /\ clean)
        => /\ invoked[Target(call)] = 1
           /\ NoOldFile(files[Target(call)])

\* C10 amended: the statement holds for network_cert, and for sign_node when
\* the authority step (network_cert, which sign_node runs before it deletes
\* anything) returns: the existing files are deleted (the set is Absent when
\* it is checked and when its process is started), the set's process is
\* invoked exactly once, and what is there afterwards is what that run
\* wrote (Complete when it wrote all three).  When the authority step raises,
\* sign_node leaves the node's files as they were and does not invoke the
\* node's process.
C10_OverwriteResignsAfterAuthority ==
    /\ (pc \in {"nc_check", "nc_run"} /\ CaOverwrite) => Absent(files[CaSet])
    /\ (pc \in {"sn_check", "sn_run"} /\ NodeOverwrite) => Absent(files[call.node])
    /\ (FinishedRequest /\ call.ow /\ Complete(pre[Target(call)])
          /\ ~(call.op = "sign_node" /\ errorSet = {CaSet}))
           => /\ invoked[Target(call)] = 1
              /\ NoOldFile(files[Target(call)])
              /\ result \in {"ok", "ProcessError"}
              /\ errorSet \subseteq {Target(call)}
    /\ (FinishedRequest /\ call.ow /\ Complete(pre[Target(call)])
          /\ call.op = "sign_node" /\ errorSet = {CaSet})
           => /\ invoked[Target(call)] = 0
              /\ files[Target(call)] = pre[Target(call)]

\* sign_node with overwrite on a Complete node set has re-signed it.
C10_Witness ==
    /\ FinishedRequest
    /\ call.op = "sign_node"
    /\ call.ow
    /\ Complete(pre[Target(call)])
    /\ result = "ok"
    /\ \A e \in Exts : files[Target(call)][e] = NewFile

(***************************************************************************)
(* Properties of the allocator (checked under SpecAlloc).                  *)
(***************************************************************************)
\* M: the nodes lacking an explicit address; N: the host addresses of the
\* block that no node carries explicitly.
NumUnset == Cardinality(UnsetIdx(inNodes))
NumFree == Cardinality(Hosts(net) \ ExplicitIps(inNodes))
Constructed == built \in {"ok", "IndexError"}

\* C4: with M <= N the construction succeeds and the M nodes get M pairwise
\* distinct host addresses of the block, none of them an explicitly pre-set
\* address of any node.
C4_AllocationSucceeds ==
    (built # "new" /\ ValidNetwork(net) /\ NumUnset <= NumFree)
        => /\ built = "ok"
           /\ \A j \in UnsetIdx(inNodes) :
                 /\ nodes[j].ip \in Hosts(net)
                 /\ nodes[j].ip \notin ExplicitIps(inNodes)
                 /\ \A k \in UnsetIdx(inNodes) \ {j} : nodes[k].ip # nodes[j].ip

\* The boundary M = N: some host address of the block is held explicitly and
\* the nodes lacking an address used up all the others.
C4_Witness ==
    /\ built = "ok"
    /\ NumUnset >= 1
    /\ NumUnset = NumFree
    /\ ExplicitIps(inNodes) \cap Hosts(net) # {}

\* C5: after a successful construction no two nodes of the network have the
\* same address, whatever the input node list.
C5_NoSharedAddress ==
    built = "ok"
        => \A j, k \in 1..Len(nodes) : j # k => nodes[j].ip # nodes[k].ip

\* C6: with M > N the construction fails with the error raised by the
\* allocation, and no constructed network has a node without an address.
C6_CapacityError ==
    /\ (built # "new" /\ ValidNetwork(net) /\ NumUnset > NumFree)
           => built = "IndexError"
    /\ built = "ok" => \A j \in 1..Len(nodes) : nodes[j].ip # NoIp

\* The pool ran out after at least one node had been given an address.
C6_Witness ==
    /\ built = "IndexError"
    /\ NumFree >= 1
    /\ NumUnset > NumFree

\* The k-th lowest element of a set of addresses.
KthLowest(S, k) == CHOOSE x \in S : Cardinality({y \in S : y < x}) = k - 1
\* The position of node j among the nodes lacking an address.
UnsetRank(j) == Cardinality({i \in UnsetIdx(inNodes) : i <= j})
\* The nodes the allocation gave an address.
Allocated == {j \in UnsetIdx(inNodes) : nodes[j].ip # NoIp}

\* The candidate pool as C7 states it: the block without its network and
\* broadcast address, minus the explicit addresses.
C7_ClaimedPool ==
    (BlockAddrs(net) \ {net.ip, net.ip + BlockSize(net.cidr) - 1})
        \ ExplicitIps(inNodes)

\* The candidate pool as amended: as claimed for prefix lengths up to 30;
\* every address of the block for the prefix lengths 31 and 32.
C7_AmendedPool ==
    IF net.cidr >= MaxCidr - 1
    THEN BlockAddrs(net) \ ExplicitIps(inNodes)
    ELSE C7_ClaimedPool

\* C7 as claimed: the k-th node lacking an address receives the k-th lowest
\* address of the block's addresses other than the network and broadcast
\* address and the explicit ones.
C7_KthLowestOfClaimedPool ==
    Constructed
        => \A j \in Allocated :
              /\ UnsetRank(j) <= Cardinality(C7_ClaimedPool)
              /\ nodes[j].ip = KthLowest(C7_ClaimedPool, UnsetRank(j))

\* C7 amended: the k-th node lacking an address receives the k-th lowest
\* candidate, the candidates being the block's host addresses minus the
\* explicit ones, where a /31 block has both its addresses as hosts and a
\* /32 block its single address, and otherwise the network and broadcast
\* address are excluded.
C7_KthLowestOfHostPool ==
    Constructed
        => /\ \A j \in Allocated :
                 /\ UnsetRank(j) <= Cardinality(C7_AmendedPool)
                 /\ nodes[j].ip = KthLowest(C7_AmendedPool, UnsetRank(j))
           /\ \A j \in UnsetIdx(inNodes) \ Allocated :
                 UnsetRank(j) > Cardinality(C7_AmendedPool)

\* The end-to-end example at the model's scale: two nodes with explicit
\* addresses, then one without, in the widest block; list(h) came out of
\* order and the third node got the block's lowest host address.
C7_Witness ==
    /\ built = "ok"
    /\ net.cidr = MaxCidr - MaxHostBits
    /\ Len(inNodes) = 3
    /\ inNodes[1].ip # NoIp
    /\ inNodes[2].ip # NoIp
    /\ inNodes[3].ip = NoIp
    /\ scrambled
    /\ nodes[3].ip = net.ip + 1

\* C8: a second construction from the same block, node order and explicit
\* assignments gives every node the same address (and the same outcome),
\* whatever order the set of candidates is enumerated in.
C8_Deterministic ==
    built2 # "new" => (built2 = built /\ nodes2 = nodes)

\* Two constructions that met different set iteration orders allocated two
\* or more nodes.
C8_Witness ==
    /\ built2 = "ok"
    /\ scrambled # scrambled2
    /\ NumUnset >= 2

(***************************************************************************)
(* Properties of concurrent sign_node calls (checked under SpecPar).       *)
(***************************************************************************)
\* The parallel sign_node calls have been started.
ParStarted == \A n \in Workers : ppc[n] # "idle"

\* Worker n's call has returned or raised.
ParDone(n) == ppc[n] = "done"

LighthouseNodes == {j \in ConfNodes : cnodes[j].am_lighthouse}

\* C12: after create_node_cert has returned, the static host map of every
\* non-lighthouse node's configuration has exactly the lighthouse nodes'
\* addresses as keys, each lighthouse's address mapped to that lighthouse's
\* declared public endpoint, and the static host map of every lighthouse
\* node's configuration is empty.
C12_StaticHostMap ==
    cres = "ok" =>
        \A i \in ConfNodes :
            /\ cnodes[i].config.set
            /\ LET shm == cnodes[i].config.static_host_map
               IN  IF cnodes[i].am_lighthouse
                   THEN DOMAIN shm = {}
                   ELSE /\ DOMAIN shm = {cnodes[j].ip : j \in LighthouseNodes}
                        /\ \A j \in LighthouseNodes :
                              shm[cnodes[j].ip] = <<cnodes[j].public>>

(***************************************************************************)
(* Properties of serialization (checked under SpecSer).                    *)
(***************************************************************************)
\* What holds of every field, whether or not it is skippable: a skippable
\* field set to a falsy zero-value is emitted with it, and a field that is
\* not skippable is emitted with its value, whatever it is.
EmittedFields ==
    \A f \in Fields(sClass) :
        /\ (f \in Skip(sClass) /\ sGiven[f] \in Falsy) =>
              (f \in DOMAIN sOut /\ sOut[f] = sGiven[f])
        /\ f \notin Skip(sClass) =>
              (f \in DOMAIN sOut /\ sOut[f] = sInst[f])

\* C13 as stated: a skippable field left unset is omitted from the output;
\* a skippable field set to a falsy zero-value is emitted; a field that is
\* not skippable is always emitted.
C13_UnsetSkippableOmitted ==
    sStage = "dumped" =>
        /\ \A f \in Skip(sClass) : sGiven[f] = "unset" => f \notin DOMAIN sOut
        /\ EmittedFields

\* C13 as amended: a skippable field whose value is None (left unset with a
\* None default, or set to None) is omitted from the output, and a
\* skippable field left unset whose default is not None is emitted with
\* that default; the rest as stated.
C13_NoneSkippableOmitted ==
    sStage = "dumped" =>
        /\ \A f \in Skip(sClass) :
              /\ sInst[f] = "None" => f \notin DOMAIN sOut
              /\ sInst[f] # "None" => (f \in DOMAIN sOut /\ sOut[f] = sInst[f])
        /\ EmittedFields

\* A serialized NebulaConfig with a skippable field left unset, another
\* set to the empty list, and a field that is not skippable set to None.
C13_Witness ==
    /\ sStage = "dumped"
    /\ sClass = "NebulaConfig"
    /\ sGiven["logging"] = "unset"
    /\ sGiven["preferred_ranges"] = "[]"
    /\ sGiven["sshd"] = "None"

(***************************************************************************)
(* Properties of firewall resolution (checked under SpecFirewall).         *)
(***************************************************************************)
\* C14: get_firewall_items_from_groups turns every bare group label of the
\* node into a rule whose group is the label and whose port, protocol and
\* host are "any", leaves every explicit rule unchanged, keeps the declared
\* order, and returns the list as both the inbound and the outbound rules;
\* a second call on the same node returns the same firewall section.
C14_FirewallResolution ==
    /\ Len(fwOut) >= 1 =>
          /\ Len(fwOut[1].outbound) = Len(fwDeclared)
          /\ \A k \in 1..Len(fwDeclared) :
                IF IsStr(fwDeclared[k])
                THEN /\ fwOut[1].outbound[k].group = fwDeclared[k].label
                     /\ fwOut[1].outbound[k].port = "any"
                     /\ fwOut[1].outbound[k].proto = "any"
                     /\ fwOut[1].outbound[k].host = "any"
                ELSE fwOut[1].outbound[k] = fwDeclared[k]
          /\ fwOut[1].inbound = fwOut[1].outbound
    /\ Len(fwOut) >= 2 => fwOut[2] = fwOut[1]

\* Two calls on a node declared with an explicit rule followed by a bare
\* label.
C14_Witness ==
    /\ Len(fwOut) = 2
    /\ \E k \in 1..(Len(fwDeclared) - 1) :
          /\ ~IsStr(fwDeclared[k])
          /\ IsStr(fwDeclared[k + 1])

(***************************************************************************)
(* Properties of node ownership (checked under SpecShare).                 *)
(***************************************************************************)
\* C15: constructing a network does not change the caller's node objects,
\* and a node lacking an address that is passed to two networks one after
\* the other is allocated by the second network from its own block, as
\* the k-th unset node the k-th lowest free host address of that block.
C15_NodesAreValues ==
    /\ built = "ok" => nodes = inNodes
    /\ builtB = "ok" =>
          \A j \in UnsetIdx(inNodes) :
              nodes[j].ip = KthLowest(Hosts(netB) \ ExplicitIps(inNodes), UnsetRank(j))

(***************************************************************************)
(* Properties of dump_config, get_nodes and save_node_configs (checked     *)
(* under SpecSave).                                                        *)
(***************************************************************************)
\* C16: dump_config on a node whose config is unset fails with an error
\* raised before any file is opened: no file is written or modified.
C16_DumpNeedsConfig ==
    (vcall.op = "dump_config" /\ ~vnodes[vcall.arg.node].composed) =>
        /\ vres \in {"AssertionError", "AttributeError"}
        /\ pyOptimized = (vres = "AttributeError")
        /\ \A n \in Names : cfgFiles[n] # NewFile

\* dump_config with an output path that exists already was called on a
\* node whose config is unset.
C16_Witness ==
    /\ vcall.op = "dump_config"
    /\ ~vnodes[vcall.arg.node].composed
    /\ vcall.output # <<>>
    /\ cfgFiles[vcall.output] = OldFile

\* The nodes whose name contains f, in declared order.
RECURSIVE MatchingFrom(_, _)
MatchingFrom(f, j) ==
    IF j > NumCertNodes THEN <<>>
    ELSE IF Contains(f, vnodes[j].name) THEN <<j>> \o MatchingFrom(f, j + 1)
    ELSE MatchingFrom(f, j + 1)

\* The name save_node_configs(node=X) is to look for.
NameOfArg(x) == IF x.kind = "node" THEN vnodes[x.node].name ELSE x.str

\* C19: get_nodes(None) returns all nodes in declared order and get_nodes(f)
\* the nodes whose name contains f, in declared order; with every
\* configuration composed, save_node_configs(node=X) for a node object or
\* a name X completes without error and writes exactly the configuration
\* files of the matching nodes.
C19_PerNodeAccessor ==
    /\ (vcall.op = "get_nodes" /\ vcall.arg.kind = "none") =>
          (vres = "ok" /\ vret = [k \in SaveNodes |-> k])
    /\ (vcall.op = "get_nodes" /\ vcall.arg.kind = "str") =>
          (vres = "ok" /\ vret = MatchingFrom(vcall.arg.str, 1))
    /\ (/\ vcall.op = "save_node_configs"
        /\ vcall.arg.kind # "none"
        /\ \A i \in SaveNodes : vnodes[i].composed) =>
          /\ vres = "ok"
          /\ {n \in Names : cfgFiles[n] = NewFile}
                = {vnodes[i].name : i \in {j \in SaveNodes :
                                              Contains(NameOfArg(vcall.arg), vnodes[j].name)}}

(***************************************************************************)
(* Properties of the lighthouses accessor (checked under SpecLh).          *)
(***************************************************************************)
\* C17: network.lighthouses returns exactly the nodes whose am_lighthouse
\* flag is set when it is read, in their order in the node list.
C17_LighthousesFilter ==
    /\ {lhRead[k] : k \in 1..Len(lhRead)} = {i \in 1..Len(lhAt) : lhAt[i]}
    /\ \A k \in 1..(Len(lhRead) - 1) : lhRead[k] < lhRead[k + 1]

\* A read that returned two lighthouses and left out a node between them.
C17_Witness ==
    \E i, j, k \in 1..Len(lhAt) :
        /\ i < j /\ j < k
        /\ lhAt[i] /\ ~lhAt[j] /\ lhAt[k]
        /\ Len(lhRead) = 2

(***************************************************************************)
(* Properties of the artifact paths (checked under SpecPaths).             *)
(***************************************************************************)
\* The three artifact paths of a base name.
PathsOf(base) == {<<base, e>> : e \in Exts}

\* The node of the last sign_node call found, deleted and left behind only
\* files signed for it.
OnlyOwnFiles ==
    /\ Owners(pfiles[NodeBase(pnames[pcall.node])]) \subseteq {NodeOwner(pcall.node)}
    /\ pout.deleted \subseteq {NodeOwner(pcall.node)}

\* C18: the artifact paths of the node of a sign_node call are disjoint from
\* those of every other node of the list and from the authority's, and a
\* call that returns has found Complete, deleted and left behind only files
\* signed for that node.
C18_ArtifactPathsDisjoint ==
    pcalls > 0 =>
        /\ PathsOf(NodeBase(pnames[pcall.node])) \cap PathsOf(CaBase(PathAuthority, PathNet)) = {}
        /\ \A m \in CertNodes \ {pcall.node} :
              PathsOf(NodeBase(pnames[pcall.node])) \cap PathsOf(NodeBase(pnames[m])) = {}
        /\ pout.err = "ok" => OnlyOwnFiles

====
